---- MODULE Spec2Model ----
(***************************************************************************)
(* Model of hugophotoswipe/album.py: the Album class.                      *)
(*                                                                         *)
(* The state is one album directory on disk (the photo subfolder, the      *)
(* resized images, the rendered markdown, the descriptor album.yml and its *)
(* .bak copy), one Album object in memory, and the position of the method  *)
(* that is running on it (update, with the dump it ends in, dump called on *)
(* its own, or clean).                                                     *)
(*                                                                         *)
(* File names are the numbers 1..MaxFiles, ordered as the strings are.  A  *)
(* display name n is the string that is also the name of file n: a newly   *)
(* discovered file f gets the display name f (album.py:345).               *)
(***************************************************************************)
EXTENDS Integers, Sequences, FiniteSets, TLC

\* ---- bounds of the model ------------------------------------------------
MaxFiles == 2
\* most entries a hand-edited descriptor lists
MaxPhotos == 2
\* distinct byte contents an image file can have
MaxContent == 2
\* things the user does besides load and update: changes to the album
\* directory, calls of clean
MaxEnv == 3
\* calls of update (each reads a later time from modtime())
MaxTime == 2
\* distinct titles a descriptor can have
MaxTitle == 1

Files == 1..MaxFiles
Names == Files
Contents == 1..MaxContent

\* hsh of a file without an entry in self.hashes (album.py:392)
NoHash == 0
\* coverimage=None (album.py:38)
NoCover == 0
\* name: with no value in the descriptor
NoName == 0
\* title=None (album.py:34)
NoTitle == 0

\* the title stands for the fields that go the way it goes: album_date,
\* properties, copyright and creation_time
Titles == 0..MaxTitle

VARIABLES
    photo_dir,    \* photo subfolder: file name -> [kind, content]
    artifacts,    \* files whose resized images exist in output_dir
    out_dir,      \* output_dir exists
    md_file,      \* markdown_file exists
    md_dir,       \* markdown_dir exists
    bundle,       \* settings.generate_branch_bundle
    descriptor,   \* album.yml on disk
    bak,          \* album.yml.bak on disk
    album,        \* the Album object: coverimage, photos, hashes
    pc,           \* position of the running method
    to_process,   \* update's local: indices of self.photos still to rebuild
    have,         \* clean's locals have_md, have_md_dir, have_out
    status,       \* how the last update, dump or clean went, else "none"
    rebuilt,      \* indices create_sizes was called on in the last update
    rendered,     \* renderer the last update called
    pre,          \* the state in which the last update began
    fresh,        \* the last update saved and the directory is as it left it
    added,        \* the image file just added to an up-to-date album, or 0
    dropped,      \* files whose nameless entries the load just done left out
    loaded,       \* title and coverimage the Album object was made with
    now,          \* clock read by modtime()
    env           \* number of things the user did so far

vars == <<photo_dir, artifacts, out_dir, md_file, md_dir, bundle, descriptor,
          bak, album, pc, to_process, have, status, rebuilt, rendered, pre,
          fresh, added, dropped, loaded, now, env>>

disk == <<photo_dir, artifacts, out_dir, md_file, md_dir, descriptor, bak>>

run == <<status, rebuilt, rendered, pre>>

\* ---- files ----------------------------------------------------------------
AbsentFile == [kind |-> "absent", content |-> 1]

FileKinds == {"image", "notimage", "denied"}

NoFile == [exists |-> FALSE, stage |-> "none", title |-> NoTitle,
           coverimage |-> NoCover, mtime |-> 0, photos |-> <<>>,
           hashes |-> <<>>]

\* ---- Photo (hugophotoswipe/photo.py) --------------------------------------
\* Photo(...): a record of the list self.photos; decoded says that the
\* record holds its decoded original_image
NewPhoto(f, n) == [file |-> f, name |-> n, cover |-> FALSE, decoded |-> FALSE]

\* _ = pho.original_image: the record keeps the image it decoded
Decode(p) == [p EXCEPT !.decoded = TRUE]

\* del photo.original_image
Release(p) == [p EXCEPT !.decoded = FALSE]

\* os.path.exists(photo.original_path)
Exists(p) == photo_dir[p.file].kind # "absent"

\* hash(photo): a value of the file's bytes
Fingerprint(p) == photo_dir[p.file].content

\* photo.has_sizes()
HasSizes(p) == p.file \in artifacts

\* ---- helpers --------------------------------------------------------------
Min(S) == CHOOSE x \in S : \A y \in S : x <= y

RECURSIVE Sorted(_)
Sorted(S) == IF S = {} THEN <<>> ELSE <<Min(S)>> \o Sorted(S \ {Min(S)})

\* ---- Album ----------------------------------------------------------------
\* Album(album_dir=...): no photos, no hashes, no cover; dir says that
\* album_dir, and with it _album_file, is not None
NewAlbum == [dir |-> TRUE, title |-> NoTitle, coverimage |-> NoCover,
             photos |-> <<>>, hashes |-> <<>>]

\* the scalar fields of an Album object
Scalars(al) == [title |-> al.title, coverimage |-> al.coverimage]

\* the guard comparing file names where the code compares display names
names_unique_by_file(photos) ==
    Cardinality({photos[i].file : i \in 1..Len(photos)}) = Len(photos)

names_unique(photos) ==
    Cardinality({photos[i].name : i \in 1..Len(photos)}) = Len(photos)

\* discovery without the test "f not in photo_files"
MissingUnfiltered(photos) ==
    Sorted({f \in Files : photo_dir[f].kind # "absent"})

\* discovery taking the candidates in descending order
MissingDescending(photos) ==
    LET new == {f \in Files : photo_dir[f].kind # "absent"
                              /\ f \notin {photos[i].file : i \in 1..Len(photos)}}
        n == Cardinality(new)
    IN [k \in 1..n |-> Sorted(new)[n + 1 - k]]

\* update, discovery: the candidates not yet listed, sorted
Missing(photos) ==
    Sorted({f \in Files : photo_dir[f].kind # "absent"
                          /\ f \notin {photos[i].file : i \in 1..Len(photos)}})

\* discovery with the try around the loop: the first candidate that is not
\* a readable image ends it
RECURSIVE DiscoverUntilBad(_, _)
DiscoverUntilBad(photos, missing) ==
    IF missing = <<>> \/ photo_dir[Head(missing)].kind # "image" THEN photos
    ELSE DiscoverUntilBad(
             Append(photos, Decode(NewPhoto(Head(missing), Head(missing)))),
             Tail(missing))

\* update, discovery: append every candidate that is a readable image
RECURSIVE Discover(_, _)
Discover(photos, missing) ==
    IF missing = <<>> THEN photos
    ELSE Discover(IF photo_dir[Head(missing)].kind = "image"
                  THEN Append(photos,
                              Decode(NewPhoto(Head(missing), Head(missing))))
                  ELSE photos,
                  Tail(missing))

\* pruning that removes nothing
PruneNothing(photos) == photos

\* update, pruning
Prune(photos) == SelectSeq(photos, Exists)

\* cover assignment comparing the display name where the code compares the
\* file name
SetCoverByName(photos, coverimage) ==
    [i \in 1..Len(photos) |->
        [photos[i] EXCEPT !.cover = (photos[i].name = coverimage)]]

\* update, cover assignment
SetCover(photos, coverimage) ==
    [i \in 1..Len(photos) |->
        [photos[i] EXCEPT !.cover = (photos[i].file = coverimage)]]

\* update, lookup of the stored hash: first entry for the file name, or None
LookupHash(hashes, f) ==
    IF \E i \in 1..Len(hashes) : hashes[i].file = f
    THEN hashes[Min({i \in 1..Len(hashes) : hashes[i].file = f})].hash
    ELSE NoHash

\* the test read as "not has_sizes() and hash differs"
NeedsRebuildBoth(p, hashes) ==
    ~HasSizes(p) /\ Fingerprint(p) # LookupHash(hashes, p.file)

\* update, the test that puts a photo in to_process
NeedsRebuild(p, hashes) ==
    ~(HasSizes(p) /\ Fingerprint(p) = LookupHash(hashes, p.file))

ToProcess(photos, hashes) ==
    Sorted({i \in 1..Len(photos) : NeedsRebuild(photos[i], hashes)})

\* update, the photo list after discovery, pruning and cover assignment
Reconciled(al) ==
    SetCover(Prune(Discover(al.photos, Missing(al.photos))), al.coverimage)

\* dump: the photo list and the hash table as written
DumpPhoto(p) == [file |-> p.file, name |-> p.name]
DumpPhotos(photos) == [i \in 1..Len(photos) |-> DumpPhoto(photos[i])]
DumpHash(p) == [file |-> p.file, hash |-> Fingerprint(p)]

\* dump writing the table the album was loaded with
DumpHashesStored(photos) == album.hashes

DumpHashes(photos) == [i \in 1..Len(photos) |-> DumpHash(photos[i])]

\* ---- initial state --------------------------------------------------------
NoPre == [descriptor |-> NoFile, bak |-> NoFile, photos |-> <<>>,
          artifacts |-> {}, fresh |-> FALSE, added |-> 0, dropped |-> {}]

NoHave == [md |-> FALSE, md_dir |-> FALSE, out |-> FALSE]

Init ==
    /\ photo_dir = [f \in Files |-> AbsentFile]
    /\ artifacts = {}
    /\ out_dir = FALSE
    /\ md_file = FALSE
    /\ md_dir = FALSE
    /\ bundle \in BOOLEAN
    /\ descriptor = NoFile
    /\ bak = NoFile
    /\ album = NewAlbum
    /\ loaded = Scalars(NewAlbum)
    /\ pc = "idle"
    /\ to_process = <<>>
    /\ have = NoHave
    /\ status = "none"
    /\ rebuilt = <<>>
    /\ rendered = "none"
    /\ pre = NoPre
    /\ fresh = FALSE
    /\ added = 0
    /\ dropped = {}
    /\ now = 1
    /\ env = 0

\* the record of the last update is dropped when anything else runs
ForgetRun ==
    /\ status' = "none"
    /\ rebuilt' = <<>>
    /\ rendered' = "none"
    /\ pre' = NoPre

\* what an update records when it begins
Begin ==
    /\ rebuilt' = <<>>
    /\ rendered' = "none"
    /\ pre' = [descriptor |-> descriptor, bak |-> bak, photos |-> album.photos,
               artifacts |-> artifacts, fresh |-> fresh, added |-> added,
               dropped |-> dropped]
    /\ fresh' = FALSE
    /\ added' = 0
    /\ dropped' = {}
    /\ now' = now + 1

\* ---- Album.load -----------------------------------------------------------
\* the Photo constructor raises PermissionError on an unreadable file
Loadable(e) == photo_dir[e.file].kind # "denied"

LoadPhoto(e) == NewPhoto(e.file, e.name)

\* photo.name is not None
Named(e) == e.name # NoName

LoadPhotos(entries) == [i \in 1..Len(entries) |-> LoadPhoto(entries[i])]

\* load keeping the records that have no name
LoadAlbumKeepsNameless(d) ==
    [dir |-> TRUE,
     title |-> d.title,
     coverimage |-> d.coverimage,
     photos |-> LoadPhotos(SelectSeq(d.photos, Loadable)),
     hashes |-> d.hashes]

LoadAlbum(d) ==
    [dir |-> TRUE,
     title |-> d.title,
     coverimage |-> d.coverimage,
     photos |-> LoadPhotos(SelectSeq(SelectSeq(d.photos, Loadable), Named)),
     hashes |-> d.hashes]

\* files of the entries load leaves out for having no name
Nameless(d) ==
    {d.photos[i].file : i \in {j \in 1..Len(d.photos) :
                                  Loadable(d.photos[j]) /\ ~Named(d.photos[j])}}

Load ==
    /\ pc = "idle"
    /\ descriptor.exists
    /\ descriptor.stage # "empty"
    /\ album' = LoadAlbum(descriptor)
    /\ loaded' = [title |-> descriptor.title,
                  coverimage |-> descriptor.coverimage]
    /\ ForgetRun
    /\ added' = 0
    /\ dropped' = Nameless(descriptor)
    /\ UNCHANGED <<disk, bundle, pc, to_process, have, fresh, now, env>>

\* ---- Album.__init__ -------------------------------------------------------
\* Album(album_dir=d): the caller makes a new Album object, with or without
\* an album directory
Construct(d) ==
    /\ pc = "idle"
    /\ album # [NewAlbum EXCEPT !.dir = d]
    /\ album' = [NewAlbum EXCEPT !.dir = d]
    /\ loaded' = Scalars(NewAlbum)
    /\ ForgetRun
    /\ added' = 0
    /\ dropped' = {}
    /\ UNCHANGED <<disk, bundle, pc, to_process, have, fresh, now, env>>

\* ---- Album.update ---------------------------------------------------------
\* self.name is os.path.basename(None): a TypeError before anything is done
UpdateNoDir ==
    /\ pc = "idle"
    /\ ~album.dir
    /\ status # "type_error"
    /\ status' = "type_error"
    /\ rebuilt' = <<>>
    /\ rendered' = "none"
    /\ pre' = NoPre
    /\ added' = 0
    /\ dropped' = {}
    /\ UNCHANGED <<disk, bundle, loaded, album, pc, to_process, have, fresh,
                   now, env>>

\* the uniqueness guard returns
UpdateRefuse ==
    /\ pc = "idle"
    /\ album.dir
    /\ now <= MaxTime
    /\ ~names_unique(album.photos)
    /\ Begin
    /\ status' = "refused"
    /\ UNCHANGED <<disk, bundle, loaded, album, pc, to_process, have, env>>

\* update going from an empty rebuild loop straight to the save
UpdateReconcileSkipsRender ==
    /\ pc = "idle"
    /\ album.dir
    /\ now <= MaxTime
    /\ names_unique(album.photos)
    /\ Begin
    /\ LET photos == Reconciled(album)
           todo == ToProcess(photos, album.hashes)
       IN /\ album' = [album EXCEPT !.photos = photos]
          /\ to_process' = todo
          /\ pc' = IF todo = <<>> THEN "backup" ELSE "rebuild"
    /\ status' = "running"
    /\ UNCHANGED <<disk, bundle, loaded, have, env>>

UpdateReconcile ==
    /\ pc = "idle"
    /\ album.dir
    /\ now <= MaxTime
    /\ names_unique(album.photos)
    /\ Begin
    /\ LET photos == Reconciled(album)
           todo == ToProcess(photos, album.hashes)
       IN /\ album' = [album EXCEPT !.photos = photos]
          /\ to_process' = todo
          /\ pc' = IF todo = <<>> THEN "render" ELSE "rebuild"
    /\ status' = "running"
    /\ UNCHANGED <<disk, bundle, loaded, have, env>>

\* photo.create_sizes(); del photo.original_image
Rebuild ==
    /\ pc = "rebuild"
    /\ LET i == Head(to_process)
           f == album.photos[i].file
       IN /\ photo_dir[f].kind = "image"
          /\ artifacts' = artifacts \cup {f}
          /\ rebuilt' = Append(rebuilt, i)
          /\ album' = [album EXCEPT !.photos[i] = Release(@)]
    /\ out_dir' = TRUE
    /\ to_process' = Tail(to_process)
    /\ pc' = IF Tail(to_process) = <<>> THEN "render" ELSE "rebuild"
    /\ UNCHANGED <<photo_dir, md_file, md_dir, bundle, loaded, descriptor, bak,
                   have, status, rendered, pre, fresh, added, dropped, now,
                   env>>

\* create_markdown_bundle() or create_markdown()
Render ==
    /\ pc = "render"
    /\ IF bundle
       THEN md_dir' = TRUE /\ rendered' = "bundle" /\ UNCHANGED md_file
       ELSE md_file' = TRUE /\ rendered' = "single" /\ UNCHANGED md_dir
    /\ pc' = "backup"
    /\ UNCHANGED <<photo_dir, artifacts, out_dir, bundle, loaded, descriptor,
                   bak, album, to_process, have, status, rebuilt, pre, fresh,
                   added, dropped, now, env>>

\* ---- Album.dump -----------------------------------------------------------
\* dump testing _album_file after the call of _backup
DumpRefuseAfterBackup ==
    /\ pc = "idle"
    /\ ~album.dir
    /\ bak' = IF descriptor.exists THEN descriptor ELSE bak
    /\ status' = "value_error"
    /\ rebuilt' = <<>>
    /\ rendered' = "none"
    /\ pre' = [NoPre EXCEPT !.descriptor = descriptor, !.bak = bak]
    /\ added' = 0
    /\ dropped' = {}
    /\ UNCHANGED <<photo_dir, artifacts, out_dir, md_file, md_dir, descriptor,
                   bundle, loaded, album, pc, to_process, have, fresh, now,
                   env>>

\* dump called on an album without _album_file: ValueError
DumpRefuse ==
    /\ pc = "idle"
    /\ ~album.dir
    /\ status # "value_error"
    /\ status' = "value_error"
    /\ rebuilt' = <<>>
    /\ rendered' = "none"
    /\ pre' = [NoPre EXCEPT !.descriptor = descriptor, !.bak = bak]
    /\ added' = 0
    /\ dropped' = {}
    /\ UNCHANGED <<disk, bundle, loaded, album, pc, to_process, have, fresh,
                   now, env>>

\* dump called by the user, not by update
DumpCall ==
    /\ pc = "idle"
    /\ album.dir
    /\ now <= MaxTime
    /\ Begin
    /\ status' = "saving"
    /\ pc' = "backup"
    /\ UNCHANGED <<disk, bundle, loaded, album, to_process, have, env>>

\* dump without the call of _backup
BackupSkipped ==
    /\ pc = "backup"
    /\ pc' = "open"
    /\ UNCHANGED <<photo_dir, artifacts, out_dir, md_file, md_dir, bundle,
                   loaded, descriptor, bak, album, to_process, have, run,
                   fresh, added, dropped, now, env>>

\* self._backup()
Backup ==
    /\ pc = "backup"
    /\ bak' = IF descriptor.exists THEN descriptor ELSE bak
    /\ pc' = "open"
    /\ UNCHANGED <<photo_dir, artifacts, out_dir, md_file, md_dir, bundle,
                   loaded, descriptor, album, to_process, have, run, fresh,
                   added, dropped, now, env>>

\* open(self._album_file, "w") truncates the file
DumpOpen ==
    /\ pc = "open"
    /\ descriptor' = [NoFile EXCEPT !.exists = TRUE, !.stage = "empty"]
    /\ pc' = "write_photos"
    /\ UNCHANGED <<photo_dir, artifacts, out_dir, md_file, md_dir, bundle,
                   loaded, bak, album, to_process, have, run, fresh, added,
                   dropped, now, env>>

\* dump leaving the title out
DumpWritePhotosNoTitle ==
    /\ pc = "write_photos"
    /\ descriptor' = [exists |-> TRUE, stage |-> "photos",
                      title |-> NoTitle,
                      coverimage |-> album.coverimage, mtime |-> now,
                      photos |-> DumpPhotos(album.photos),
                      hashes |-> <<>>]
    /\ pc' = "write_hashes"
    /\ UNCHANGED <<photo_dir, artifacts, out_dir, md_file, md_dir, bundle,
                   loaded, bak, album, to_process, have, run, fresh, added,
                   dropped, now, env>>

\* the scalar fields, with modtime(), and the photo list
DumpWritePhotos ==
    /\ pc = "write_photos"
    /\ descriptor' = [exists |-> TRUE, stage |-> "photos",
                      title |-> album.title,
                      coverimage |-> album.coverimage, mtime |-> now,
                      photos |-> DumpPhotos(album.photos),
                      hashes |-> <<>>]
    /\ pc' = "write_hashes"
    /\ UNCHANGED <<photo_dir, artifacts, out_dir, md_file, md_dir, bundle,
                   loaded, bak, album, to_process, have, run, fresh, added,
                   dropped, now, env>>

\* the hash table; the with block closes the file and update returns
DumpWriteHashes ==
    /\ pc = "write_hashes"
    /\ descriptor' = [descriptor EXCEPT !.stage = "complete",
                                        !.hashes = DumpHashes(album.photos)]
    /\ pc' = "idle"
    /\ status' = IF status = "saving" THEN "saved" ELSE "done"
    /\ fresh' = (status # "saving")
    /\ UNCHANGED <<photo_dir, artifacts, out_dir, md_file, md_dir, bundle,
                   loaded, bak, album, to_process, have, rebuilt, rendered,
                   pre, added, dropped, now, env>>

\* an I/O error in create_sizes, in the renderer or in dump propagates
FailedAt(step) ==
    CASE step = "rebuild" -> "failed_rebuild"
      [] step = "render" -> "failed_render"
      [] OTHER -> "failed_save"

UpdateSteps == {"rebuild", "render", "backup", "open", "write_photos",
                "write_hashes"}

\* update saving the album in a finally clause
FailThenDump ==
    /\ pc \in UpdateSteps
    /\ status' = IF status = "saving" THEN "failed_dump" ELSE FailedAt(pc)
    /\ pc' = "idle"
    /\ to_process' = <<>>
    /\ bak' = IF descriptor.exists THEN descriptor ELSE bak
    /\ descriptor' = [exists |-> TRUE, stage |-> "complete",
                      title |-> album.title,
                      coverimage |-> album.coverimage, mtime |-> now,
                      photos |-> DumpPhotos(album.photos),
                      hashes |-> DumpHashes(album.photos)]
    /\ UNCHANGED <<photo_dir, artifacts, out_dir, md_file, md_dir, bundle,
                   loaded, album, have, rebuilt, rendered, pre, fresh, added,
                   dropped, now, env>>

Fail ==
    /\ pc \in UpdateSteps
    /\ status' = IF status = "saving" THEN "failed_dump" ELSE FailedAt(pc)
    /\ pc' = "idle"
    /\ to_process' = <<>>
    /\ UNCHANGED <<disk, bundle, loaded, album, have, rebuilt, rendered, pre,
                   fresh, added, dropped, now, env>>

\* ---- Album.clean ----------------------------------------------------------
Targets == [md |-> md_file, md_dir |-> md_dir, out |-> out_dir]

\* self.markdown_file reads self.name: a TypeError before anything is done
CleanNoDir ==
    /\ pc = "idle"
    /\ ~album.dir
    /\ status # "clean_type_error"
    /\ status' = "clean_type_error"
    /\ rebuilt' = <<>>
    /\ rendered' = "none"
    /\ pre' = NoPre
    /\ added' = 0
    /\ dropped' = {}
    /\ UNCHANGED <<disk, bundle, loaded, album, pc, to_process, have, fresh,
                   now, env>>

\* none of the three exists: return
CleanNothing ==
    /\ pc = "idle"
    /\ album.dir
    /\ ~(md_file \/ md_dir \/ out_dir)
    /\ env < MaxEnv
    /\ env' = env + 1
    /\ status' = "nothing_to_clean"
    /\ rebuilt' = <<>>
    /\ rendered' = "none"
    /\ pre' = NoPre
    /\ added' = 0
    /\ dropped' = {}
    /\ UNCHANGED <<disk, bundle, loaded, album, pc, to_process, have, fresh,
                   now>>

\* question_yes_no is called
CleanAsk ==
    /\ pc = "idle"
    /\ album.dir
    /\ md_file \/ md_dir \/ out_dir
    /\ env < MaxEnv
    /\ env' = env + 1
    /\ have' = Targets
    /\ pc' = "clean_ask"
    /\ status' = "none"
    /\ rebuilt' = <<>>
    /\ rendered' = "none"
    /\ pre' = [NoPre EXCEPT !.descriptor = descriptor]
    /\ added' = 0
    /\ dropped' = {}
    /\ UNCHANGED <<disk, bundle, loaded, album, to_process, fresh, now>>

\* question_yes_no returns
CleanAnswer(yes) ==
    /\ pc = "clean_ask"
    /\ pc' = IF yes THEN "clean_yes" ELSE "clean_no"
    /\ UNCHANGED <<disk, bundle, loaded, album, to_process, have, run, fresh,
                   added, dropped, now, env>>

\* clean with the test of the answer inverted
CleanDeclinedDeletes ==
    /\ pc = "clean_no"
    /\ md_file' = (md_file /\ ~have.md)
    /\ md_dir' = (md_dir /\ ~have.md_dir)
    /\ out_dir' = (out_dir /\ ~have.out)
    /\ artifacts' = IF have.out THEN {} ELSE artifacts
    /\ pc' = "idle"
    /\ have' = NoHave
    /\ status' = "declined"
    /\ fresh' = FALSE
    /\ UNCHANGED <<photo_dir, bundle, loaded, descriptor, bak, album,
                   to_process, rebuilt, rendered, pre, added, dropped, now,
                   env>>

CleanDeclined ==
    /\ pc = "clean_no"
    /\ pc' = "idle"
    /\ have' = NoHave
    /\ status' = "declined"
    /\ UNCHANGED <<disk, bundle, loaded, album, to_process, rebuilt, rendered,
                   pre, fresh, added, dropped, now, env>>

\* clean removing the markdown file and the images but not the bundle directory
CleanConfirmedKeepsBundle ==
    /\ pc = "clean_yes"
    /\ md_file' = (md_file /\ ~have.md)
    /\ out_dir' = (out_dir /\ ~have.out)
    /\ artifacts' = IF have.out THEN {} ELSE artifacts
    /\ pc' = "idle"
    /\ have' = NoHave
    /\ status' = "cleaned"
    /\ fresh' = FALSE
    /\ UNCHANGED <<photo_dir, md_dir, bundle, loaded, descriptor, bak, album,
                   to_process, rebuilt, rendered, pre, added, dropped, now,
                   env>>

\* os.unlink and the two shutil.rmtree
CleanConfirmed ==
    /\ pc = "clean_yes"
    /\ md_file' = (md_file /\ ~have.md)
    /\ md_dir' = (md_dir /\ ~have.md_dir)
    /\ out_dir' = (out_dir /\ ~have.out)
    /\ artifacts' = IF have.out THEN {} ELSE artifacts
    /\ pc' = "idle"
    /\ have' = NoHave
    /\ status' = "cleaned"
    /\ fresh' = FALSE
    /\ UNCHANGED <<photo_dir, bundle, loaded, descriptor, bak, album,
                   to_process, rebuilt, rendered, pre, added, dropped, now,
                   env>>

\* ---- changes made from outside, between runs ------------------------------
\* an update of the album as it is would rebuild nothing
UpToDate ==
    \/ ~names_unique(album.photos)
    \/ ToProcess(Reconciled(album), album.hashes) = <<>>

Outside ==
    /\ pc = "idle"
    /\ env < MaxEnv
    /\ env' = env + 1
    /\ ForgetRun
    /\ fresh' = FALSE
    /\ UNCHANGED <<bundle, loaded, album, pc, to_process, have, now>>

AddFile(f, k, c) ==
    /\ Outside
    /\ photo_dir[f].kind = "absent"
    /\ k = "image" \/ c = 1
    /\ photo_dir' = [photo_dir EXCEPT ![f] = [kind |-> k, content |-> c]]
    /\ added' = IF k = "image" /\ UpToDate THEN f ELSE 0
    /\ dropped' = {}
    /\ UNCHANGED <<artifacts, out_dir, md_file, md_dir, descriptor, bak>>

RemoveFile(f) ==
    /\ Outside
    /\ photo_dir[f].kind # "absent"
    /\ photo_dir' = [photo_dir EXCEPT ![f] = AbsentFile]
    /\ added' = 0
    /\ dropped' = {}
    /\ UNCHANGED <<artifacts, out_dir, md_file, md_dir, descriptor, bak>>

ModifyFile(f, c) ==
    /\ Outside
    /\ photo_dir[f].kind = "image"
    /\ photo_dir[f].content # c
    /\ photo_dir' = [photo_dir EXCEPT ![f].content = c]
    /\ added' = 0
    /\ dropped' = {}
    /\ UNCHANGED <<artifacts, out_dir, md_file, md_dir, descriptor, bak>>

RemoveArtifacts(f) ==
    /\ Outside
    /\ f \in artifacts
    /\ artifacts' = artifacts \ {f}
    /\ added' = 0
    /\ dropped' = {}
    /\ UNCHANGED <<photo_dir, out_dir, md_file, md_dir, descriptor, bak>>

\* the user edits album.yml by hand
Editable == descriptor.exists /\ descriptor.stage = "complete"

EditName(i, n) ==
    /\ Outside
    /\ Editable
    /\ i \in 1..Len(descriptor.photos)
    /\ descriptor.photos[i].name # n
    /\ descriptor' = [descriptor EXCEPT !.photos[i].name = n]
    /\ added' = 0
    /\ dropped' = {}
    /\ UNCHANGED <<photo_dir, artifacts, out_dir, md_file, md_dir, bak>>

EditAddEntry(f, n) ==
    /\ Outside
    /\ Editable
    /\ Len(descriptor.photos) < MaxPhotos
    /\ descriptor' = [descriptor EXCEPT
                         !.photos = Append(@, [file |-> f, name |-> n])]
    /\ added' = 0
    /\ dropped' = {}
    /\ UNCHANGED <<photo_dir, artifacts, out_dir, md_file, md_dir, bak>>

EditCover(c) ==
    /\ Outside
    /\ Editable
    /\ descriptor.coverimage # c
    /\ descriptor' = [descriptor EXCEPT !.coverimage = c]
    /\ added' = 0
    /\ dropped' = {}
    /\ UNCHANGED <<photo_dir, artifacts, out_dir, md_file, md_dir, bak>>

EditTitle(t) ==
    /\ Outside
    /\ Editable
    /\ descriptor.title # t
    /\ descriptor' = [descriptor EXCEPT !.title = t]
    /\ added' = 0
    /\ dropped' = {}
    /\ UNCHANGED <<photo_dir, artifacts, out_dir, md_file, md_dir, bak>>

Next ==
    \/ Load
    \/ \E d \in BOOLEAN : Construct(d)
    \/ UpdateNoDir
    \/ UpdateRefuse
    \/ UpdateReconcile
    \/ Rebuild
    \/ Render
    \/ DumpRefuse
    \/ DumpCall
    \/ Backup
    \/ DumpOpen
    \/ DumpWritePhotos
    \/ DumpWriteHashes
    \/ Fail
    \/ CleanNoDir
    \/ CleanNothing
    \/ CleanAsk
    \/ \E yes \in BOOLEAN : CleanAnswer(yes)
    \/ CleanDeclined
    \/ CleanConfirmed
    \/ \E f \in Files, k \in FileKinds, c \in Contents : AddFile(f, k, c)
    \/ \E f \in Files : RemoveFile(f)
    \/ \E f \in Files, c \in Contents : ModifyFile(f, c)
    \/ \E f \in Files : RemoveArtifacts(f)
    \/ \E i \in 1..MaxPhotos + MaxFiles, n \in Names \cup {NoName} :
           EditName(i, n)
    \/ \E f \in Files, n \in Names : EditAddEntry(f, n)
    \/ \E c \in Files \cup {NoCover} : EditCover(c)
    \/ \E t \in Titles : EditTitle(t)

Spec == Init /\ [][Next]_vars

\* ---- properties -----------------------------------------------------------
\* statuses of an update that passed the uniqueness guard
Started == {"running", "failed_rebuild", "failed_render", "failed_save", "done"}

\* statuses of an update that left the rebuild loop without an error in it
PastRebuild == {"failed_render", "failed_save", "done"}

RebuiltSet == {rebuilt[k] : k \in 1..Len(rebuilt)}

\* photos of the reconciled list that had no resized images when the update
\* began, or whose file's bytes are not what the first table entry for the
\* file name records
NeededSet ==
    {i \in 1..Len(album.photos) :
        LET f == album.photos[i].file
            at == {j \in 1..Len(album.hashes) : album.hashes[j].file = f}
        IN \/ f \notin pre.artifacts
           \/ at = {}
           \/ \E j \in at : /\ \A k \in at : j <= k
                            /\ album.hashes[j].hash # photo_dir[f].content}

\* C1: in update, create_sizes is called on a photo of the reconciled list if
\* and only if the photo had no resized images or its fingerprint differs from
\* the one the table stores for its file name (no entry counts as differs):
\* only such photos are ever rebuilt, those still queued are the rest of
\* them, and once the loop is over all of them have been rebuilt.
C1_FingerprintGating ==
    status \in Started =>
        /\ RebuiltSet \subseteq NeededSet
        /\ pc = "rebuild" =>
              RebuiltSet \cup {to_process[k] : k \in 1..Len(to_process)} = NeededSet
        /\ (status \in PastRebuild \/ pc \in {"render", "backup", "open",
                                              "write_photos", "write_hashes"})
              => RebuiltSet = NeededSet

\* a finished update that rebuilt one photo for its changed bytes alone and
\* left another photo alone
C1_Witness ==
    /\ status = "done"
    /\ \E i \in RebuiltSet : album.photos[i].file \in pre.artifacts
    /\ \E i \in 1..Len(album.photos) : i \notin RebuiltSet

\* a descriptor with its modification time blanked
Timeless(d) == [d EXCEPT !.mtime = 0]

\* C2: an update that follows a saved update, with no change to the album
\* directory in between, on the same Album object or on one loaded from the
\* saved descriptor, rebuilds nothing and saves the same descriptor but for
\* the modification time.
C2_Idempotence ==
    (status = "done" /\ pre.fresh)
    => /\ rebuilt = <<>>
       /\ Timeless(descriptor) = Timeless(pre.descriptor)

\* C3: an update called on a photo list in which two records have the same
\* display name returns at once: the list is as it was, nothing was rebuilt
\* or rendered, and the descriptor and its .bak are as they were.
C3_UniquenessGuard ==
    (/\ status \in Started \cup {"refused"}
     /\ \E i, j \in 1..Len(pre.photos) :
            i # j /\ pre.photos[i].name = pre.photos[j].name)
    => /\ status = "refused"
       /\ pc = "idle"
       /\ album.photos = pre.photos
       /\ rebuilt = <<>>
       /\ rendered = "none"
       /\ artifacts = pre.artifacts
       /\ descriptor = pre.descriptor
       /\ bak = pre.bak

C3_Witness ==
    /\ status = "refused"
    /\ Len(pre.photos) >= 2
    /\ pre.descriptor.exists

\* C4: once dump has gone past its backup, the .bak holds what the descriptor
\* held when dump was called, if the descriptor existed then, and is untouched
\* otherwise; the descriptor is not written before that.
C4_BackupSafety ==
    status \in Started =>
        LET backed == IF pre.descriptor.exists THEN pre.descriptor ELSE pre.bak
        IN /\ (pc \in {"open", "write_photos", "write_hashes"} \/ status = "done")
                => bak = backed
           /\ descriptor # pre.descriptor => bak = backed
           /\ bak \in {pre.bak, backed}

\* dump has copied an existing descriptor that differs from the old .bak
C4_Witness ==
    /\ status = "done"
    /\ pre.descriptor.exists
    /\ pre.bak # pre.descriptor
    /\ bak = pre.descriptor

\* C5: when update is aborted by a failure in a rebuild or in the renderer,
\* the descriptor and its .bak are what they were when update began.
C5_AbortBeforeSave ==
    (status \in {"failed_rebuild", "failed_render"}
        \/ (status = "running" /\ pc \in {"rebuild", "render", "backup"}))
    => /\ descriptor = pre.descriptor
       /\ bak = pre.bak

C5_Witness ==
    /\ status = "failed_render"
    /\ rebuilt # <<>>
    /\ pre.descriptor.exists
    /\ pre.descriptor # pre.bak

\* the descriptor dump writes for the album as it is
FullDump ==
    [exists |-> TRUE, stage |-> "complete", title |-> album.title,
     coverimage |-> album.coverimage, mtime |-> now,
     photos |-> DumpPhotos(album.photos),
     hashes |-> DumpHashes(album.photos)]

\* C6: after an update aborted by a failure in any step, the descriptor is
\* what it was when update began or is the complete new descriptor.
C6_AtomicSave ==
    status \in {"failed_rebuild", "failed_render", "failed_save"}
    => descriptor = pre.descriptor \/ descriptor = FullDump

\* the update appended one record for the added file, rebuilt that record
\* alone and saved the list with the one entry more
AddedOne ==
    LET entry == [file |-> pre.added, name |-> pre.added]
        before == DumpPhotos(pre.photos)
    IN /\ status = "done"
       /\ DumpPhotos(album.photos) = Append(before, entry)
       /\ rebuilt = <<Len(album.photos)>>
       /\ descriptor.photos = Append(before, entry)

\* C7 as stated: an update of an album that was up to date (an update would
\* have rebuilt nothing) when one valid image file was added adds one record,
\* rebuilds that one and saves the list with one entry more.
C7_AdditionAsStated ==
    (pre.added # 0 /\ status \in {"refused", "done"}) => AddedOne

\* C7, amended: the same of an update that passes the uniqueness guard and
\* runs to its end, on an album whose tracked files all exist, which has a
\* record for every other image file of the subfolder, and which has neither
\* a record nor a stored fingerprint for the name of the added file.
C7_Addition ==
    (/\ pre.added # 0
     /\ status = "done"
     /\ \A i \in 1..Len(pre.photos) :
            /\ photo_dir[pre.photos[i].file].kind # "absent"
            /\ pre.photos[i].file # pre.added
     /\ \A g \in Files \ {pre.added} :
            photo_dir[g].kind = "image" =>
                \E i \in 1..Len(pre.photos) : pre.photos[i].file = g
     /\ \A j \in 1..Len(album.hashes) : album.hashes[j].file # pre.added)
    => AddedOne

\* a file was added to an up-to-date album of one photo and the update ended
C7_Witness ==
    /\ pre.added # 0
    /\ status = "done"
    /\ Len(pre.photos) >= 1
    /\ AddedOne

\* C8: the descriptor an update saves has no entry, in the photo list or in
\* the hash table, for a file that does not exist, and has an entry in both
\* for every record the album had whose file exists.
C8_Removal ==
    status = "done" =>
        /\ \A k \in 1..Len(descriptor.photos) :
               photo_dir[descriptor.photos[k].file].kind # "absent"
        /\ \A k \in 1..Len(descriptor.hashes) :
               photo_dir[descriptor.hashes[k].file].kind # "absent"
        /\ \A i \in 1..Len(pre.photos) :
               photo_dir[pre.photos[i].file].kind # "absent" =>
                   /\ \E k \in 1..Len(descriptor.photos) :
                          /\ descriptor.photos[k].file = pre.photos[i].file
                          /\ descriptor.photos[k].name = pre.photos[i].name
                   /\ \E k \in 1..Len(descriptor.hashes) :
                          descriptor.hashes[k].file = pre.photos[i].file

\* an update ended on an album that tracked a deleted file and a present one
C8_Witness ==
    /\ status = "done"
    /\ \E i \in 1..Len(pre.photos) : photo_dir[pre.photos[i].file].kind = "absent"
    /\ \E i \in 1..Len(pre.photos) : photo_dir[pre.photos[i].file].kind # "absent"

Marked == {i \in 1..Len(album.photos) : album.photos[i].cover}

\* C9 as stated: after the cover assignment of an update that passed the
\* uniqueness guard at most one record has the cover marker, and a record
\* has it if and only if its file name is the configured cover.
C9_CoverExclusivityAsStated ==
    status \in Started =>
        /\ Cardinality(Marked) <= 1
        /\ \A i \in 1..Len(album.photos) :
               album.photos[i].cover <=> album.photos[i].file = album.coverimage

\* C9, amended: a record has the marker if and only if its file name is the
\* configured cover, and at most one record has it when no two records have
\* the same file name.
C9_CoverExclusivity ==
    status \in Started =>
        /\ \A i \in 1..Len(album.photos) :
               album.photos[i].cover <=> album.photos[i].file = album.coverimage
        /\ (\A i, j \in 1..Len(album.photos) :
                i # j => album.photos[i].file # album.photos[j].file)
              => Cardinality(Marked) <= 1

\* one record is the cover and another is not
C9_Witness ==
    /\ status \in Started
    /\ \E i, j \in 1..Len(album.photos) :
            album.photos[i].cover /\ ~album.photos[j].cover

\* C10: clean asks only when one of its three paths exists; none of the
\* three is deleted except by the step that follows the answer yes; the step
\* that follows the answer no changes nothing on disk; the step that follows
\* yes leaves none of the three and touches neither the photo subfolder nor
\* the descriptor nor its .bak.
C10_CleanConfirmed ==
    [][/\ (pc # "clean_ask" /\ pc' = "clean_ask") => (md_file \/ md_dir \/ out_dir)
       /\ ((md_file /\ ~md_file') \/ (md_dir /\ ~md_dir') \/ (out_dir /\ ~out_dir'))
              => pc = "clean_yes"
       /\ pc \in {"clean_ask", "clean_no"} => UNCHANGED disk
       /\ pc = "clean_yes" =>
              /\ ~md_file' /\ ~md_dir' /\ ~out_dir'
              /\ UNCHANGED <<photo_dir, descriptor, bak>>]_vars

\* a confirmed clean removed the resized images and the markdown
C10_Witness ==
    /\ status = "cleaned"
    /\ descriptor.exists
    /\ ~md_file /\ ~md_dir /\ ~out_dir
    /\ artifacts = {}

\* C11 as stated: after a confirmed clean none of the descriptor, the
\* directory of resized images and the rendered markdown (the file or the
\* bundle directory) exists.
C11_CleanRemovesAllAsStated ==
    status = "cleaned" =>
        /\ ~descriptor.exists
        /\ ~out_dir
        /\ ~md_file /\ ~md_dir

\* C11, amended: after a confirmed clean neither the directory of resized
\* images nor the rendered markdown exists, no resized image is left, and
\* the descriptor is the file it was when clean was called.
C11_CleanRemovesOutput ==
    status = "cleaned" =>
        /\ ~out_dir
        /\ artifacts = {}
        /\ ~md_file /\ ~md_dir
        /\ descriptor = pre.descriptor

\* a confirmed clean of an album with a saved photo and its resized images
C11_Witness ==
    /\ status = "cleaned"
    /\ pre.descriptor.exists
    /\ pre.descriptor.photos # <<>>
    /\ descriptor = pre.descriptor

\* C12: dump called on an album that has no album directory, and so no
\* descriptor path, raises ValueError and has done nothing: the descriptor
\* and its .bak are what they were and no step of the save was begun.
C12_SaveWithoutPath ==
    (~album.dir /\ status = "value_error")
    => /\ pc = "idle"
       /\ descriptor = pre.descriptor
       /\ bak = pre.bak

\* dump was refused while there was a descriptor to back up
C12_Witness ==
    /\ ~album.dir
    /\ status = "value_error"
    /\ descriptor.exists
    /\ descriptor # bak

\* records of self.photos that hold a decoded image
Resident == {i \in 1..Len(album.photos) : album.photos[i].decoded}

\* C13: while update runs, at most one record holds a decoded image, and
\* while the rebuild loop runs none but the record being rebuilt does.
C13_OneDecodedImage ==
    (status = "running" /\ pc \in UpdateSteps)
    => /\ Cardinality(Resident) <= 1
       /\ pc = "rebuild" => Resident \subseteq {Head(to_process)}

\* the renderer the bundle toggle selects
Selected == IF bundle THEN "bundle" ELSE "single"

\* C14: in an update that passed the uniqueness guard no renderer is called
\* while the rebuild loop runs; until a renderer was called the descriptor
\* and its .bak are untouched and the save is not begun; the renderer called
\* is the one the bundle toggle selects, it is called when every photo that
\* needed a rebuild was rebuilt (also when none did), and the call writes the
\* output of that renderer only.
C14_StepOrder ==
    /\ [](status \in Started =>
            /\ pc \in {"rebuild", "render"} => rendered = "none"
            /\ rendered = "none" =>
                   /\ descriptor = pre.descriptor
                   /\ bak = pre.bak
                   /\ pc \notin {"backup", "open", "write_photos", "write_hashes"}
                   /\ status \notin {"failed_save", "done"}
            /\ rendered # "none" =>
                   /\ rendered = Selected
                   /\ RebuiltSet = NeededSet)
    /\ [][(pc = "render" /\ pc' = "backup") =>
              /\ rendered' = Selected
              /\ IF bundle THEN md_dir' /\ md_file' = md_file
                           ELSE md_file' /\ md_dir' = md_dir]_vars

\* an update that had nothing to rebuild rendered and saved
C14_Witness ==
    /\ status = "done"
    /\ rebuilt = <<>>
    /\ album.photos # <<>>
    /\ rendered = Selected
    /\ descriptor # pre.descriptor

\* statuses of a dump that wrote the whole descriptor
Saved == {"done", "saved"}

\* C15: in the descriptor dump has written, the hash table has as many
\* entries as the photo list, the k-th for the file of the k-th photo, with
\* the fingerprint the file has at the time of the save; so it has no entry
\* for a file that is not in the photo list.
C15_HashTableMatchesPhotos ==
    status \in Saved =>
        /\ Len(descriptor.hashes) = Len(descriptor.photos)
        /\ \A k \in 1..Len(descriptor.hashes) :
               /\ descriptor.hashes[k].file = descriptor.photos[k].file
               /\ descriptor.hashes[k].hash
                      = photo_dir[descriptor.photos[k].file].content
        /\ \A k \in 1..Len(descriptor.hashes) :
               \E i \in 1..Len(album.photos) :
                   album.photos[i].file = descriptor.hashes[k].file

\* the table saved before had an entry for a file that is gone from the
\* list, and the table saved now has entries
C15_Witness ==
    /\ status = "done"
    /\ \E k \in 1..Len(pre.descriptor.hashes) :
           \A i \in 1..Len(descriptor.photos) :
               descriptor.photos[i].file # pre.descriptor.hashes[k].file
    /\ descriptor.hashes # <<>>

\* file names of the records the album had when the update began
TrackedBefore == {pre.photos[i].file : i \in 1..Len(pre.photos)}

\* file names of the records the album has
Tracked == {album.photos[i].file : i \in 1..Len(album.photos)}

\* C16: an update that passed the uniqueness guard goes on past discovery
\* whatever the photo subfolder holds; after it every file of the subfolder
\* that is a readable image has a record, and no file that cannot be read or
\* is not an image has got one.
C16_DiscoveryAbsorbsBad ==
    status \in Started =>
        \A f \in Files :
            /\ photo_dir[f].kind = "image" => f \in Tracked
            /\ (photo_dir[f].kind \in {"notimage", "denied"}
                    /\ f \notin TrackedBefore) => f \notin Tracked

\* a candidate that is no readable image came before one that is, and the
\* update added the second
C16_Witness ==
    /\ status \in Started
    /\ \E f, g \in Files :
           /\ f < g
           /\ photo_dir[f].kind \in {"notimage", "denied"}
           /\ f \notin TrackedBefore
           /\ photo_dir[g].kind = "image"
           /\ g \notin TrackedBefore
           /\ g \in Tracked

C18_SavedNamesUnique ==
    status = "done" =>
        \A i, j \in 1..Len(descriptor.photos) :
            i # j => descriptor.photos[i].name # descriptor.photos[j].name

\* the tracked records whose files exist, in the order they were in
Survivors == SelectSeq(pre.photos, Exists)

\* C19: after the reconciliation of an update that passed the uniqueness
\* guard the list begins with the records that were tracked and whose files
\* exist, in the order they had; the records after them are for files that
\* were not tracked, each named as its file, in ascending order of file
\* name; and if no two tracked records had the same file name, no two
\* records of the list have.
C19_OrderKept ==
    status \in Started =>
        LET n == Len(Survivors)
            m == Len(album.photos)
        IN /\ m >= n
           /\ \A k \in 1..n :
                  /\ album.photos[k].file = Survivors[k].file
                  /\ album.photos[k].name = Survivors[k].name
           /\ \A k \in (n + 1)..m :
                  /\ album.photos[k].file \notin TrackedBefore
                  /\ album.photos[k].name = album.photos[k].file
           /\ \A k, l \in (n + 1)..m :
                  k < l => album.photos[k].file < album.photos[l].file
           /\ Cardinality(TrackedBefore) = Len(pre.photos)
                  => Cardinality(Tracked) = m

\* an update added two files at once
C19_Witness ==
    /\ status \in Started
    /\ Len(album.photos) >= Len(Survivors) + 2

\* the update appended a record for file f, named as the file, and saved it
Readded(f) ==
    \E i \in (Len(Survivors) + 1)..Len(album.photos) :
        /\ album.photos[i].file = f
        /\ album.photos[i].name = f
        /\ i \in 1..Len(descriptor.photos)
        /\ descriptor.photos[i] = [file |-> f, name |-> f]

\* the update called create_sizes on a record for file f
RebuiltFile(f) == \E i \in RebuiltSet : album.photos[i].file = f

\* C20 as stated: load leaves out an entry that has no display name, and if
\* the entry's file exists the update that follows the load and runs to its
\* end appends a record for it, named as the file, rebuilds it and saves it.
C20_NamelessReaddedAsStated ==
    /\ \A i \in 1..Len(album.photos) : Named(album.photos[i])
    /\ \A f \in Files :
           (status = "done" /\ f \in pre.dropped /\ photo_dir[f].kind # "absent")
           => Readded(f) /\ RebuiltFile(f)

\* C20, amended: load leaves out an entry that has no display name; if the
\* entry's file is a readable image and no record that was loaded is for the
\* same file, the update that follows the load and runs to its end appends a
\* record for it, named as the file, and saves it; the record is rebuilt if
\* and only if the file has no resized images or its fingerprint differs
\* from the one the loaded table stores for it.
C20_NamelessReadded ==
    /\ \A i \in 1..Len(album.photos) : Named(album.photos[i])
    /\ \A f \in Files :
           (/\ status = "done"
            /\ f \in pre.dropped
            /\ photo_dir[f].kind = "image"
            /\ f \notin TrackedBefore)
           => /\ Readded(f)
              /\ RebuiltFile(f) <=>
                     \/ f \notin pre.artifacts
                     \/ photo_dir[f].content # LookupHash(album.hashes, f)

\* the update that followed the load appended the file of a nameless entry
\* and did not rebuild it
C20_Witness ==
    /\ status = "done"
    /\ \E f \in pre.dropped : Readded(f) /\ ~RebuiltFile(f)
====
